---- MODULE Spec2Model ----
(***************************************************************************)
(* Multiple-shot cannonball animation: Projectile (ch10_projectile.py),    *)
(* Launcher, ShotTracker and ProjectileApp (main_animation.py).            *)
(*                                                                         *)
(* Arithmetic is exact, on integer grids chosen so that every step of the  *)
(* program with dt a multiple of 1/120 s stays on the grid:                *)
(*   time      1 unit = 1/FPS s            (run passes dt = 1/120)         *)
(*   velocity  1 unit = 1/VelUnit m/s      (9.8/120 m/s = 49 units)        *)
(*   position  1 unit = 1/PosUnit m        (one velocity unit for one time *)
(*                                          unit moves 2 position units)   *)
(*   degrees   1 unit = 1/2 degree         (2.5 degrees = 5 units)         *)
(*   radians   1 unit = pi/720             (radians(1/2 degree) = 2 units) *)
(*   texts     numbers rounded to 1 decimal are kept in tenths             *)
(* sin and cos are tabulated to 4 decimals on the 2.5-degree grid, which   *)
(* holds every angle the launcher can take.                                *)
(***************************************************************************)
EXTENDS Integers, Sequences, FiniteSets

VARIABLES
    launcher,   \* ProjectileApp.launcher: [angle, vel, arrow]
    shots,      \* ProjectileApp.shots: the active collection, in firing order
    finPos,     \* run: text of the "Last Shot Distance" summary
    finVel,     \* run: text of the "Last Shot Final Speed" summary
    initAngle,  \* ProjectileApp.initAngle text
    initVel,    \* ProjectileApp.initVel text
    running,    \* FALSE once the loop of run was left with q
    ret,        \* run: the (x, y, v) updateShots returned in the last frame
    lastShot,   \* history: <<the tracker updateShots iterated last>>, or <<>>
    wrote,      \* history: the last frame wrote the summary
    retired,    \* history: the trackers updateShots dropped, as they were then
    presses,    \* history: number of Up, Down, Left, Right keys handled
    nFired,     \* history: number of f keys handled (the last tracker's id)
    budget,     \* keys the model still admits: [adjust, fire]
    trk,        \* a ShotTracker driven on its own (SpecTracker)
    trk0,       \* history: the projectile of trk as constructed
    dtIn,       \* the dt every update of trk is given
    steps,      \* history: number of updates of trk
    everOut     \* history: trk was out of bounds after some update

vars == <<launcher, shots, finPos, finVel, initAngle, initVel, running, ret,
          lastShot, wrote, retired, presses, nFired, budget,
          trk, trk0, dtIn, steps, everOut>>

appVars == <<launcher, shots, finPos, finVel, initAngle, initVel, running, ret,
             lastShot, wrote, retired, presses, nFired, budget>>

trkVars == <<trk, trk0, dtIn, steps, everOut>>

----------------------------------------------------------------------------
(* Units and program constants *)

FPS == 120
G10 == 98
VelUnit == 5 * FPS
PosPerVelFrame == 2
PosUnit == PosPerVelFrame * VelUnit * FPS
TenthPos == PosUnit \div 10
TenthVel == VelUnit \div 10
GravityStep == (G10 * VelUnit) \div (10 * FPS)

FrameDt == 1
WindowX == 420 * PosUnit
InitAngleDeg == 90
InitVel == 40 * VelUnit
AngleStepDeg == 5
VelStep == 1 * VelUnit
FireHeight == 0

----------------------------------------------------------------------------
(* math: radians, degrees, sin, cos, sqrt, round *)

Radians(d) == 2 * d

Degrees(r) == r \div 2

SinTable ==
    <<    0,  436,  872, 1305, 1736, 2164, 2588, 3007, 3420, 3827,
       4226, 4617, 5000, 5373, 5736, 6088, 6428, 6756, 7071, 7373,
       7660, 7934, 8192, 8434, 8660, 8870, 9063, 9239, 9397, 9537,
       9659, 9763, 9848, 9914, 9962, 9990, 10000 >>

TrigScale == 10000

\* sin of theta (in radian units), times TrigScale
Sin(theta) ==
    LET a == theta % 1440
    IN  IF a <= 360 THEN SinTable[(a \div 10) + 1]
        ELSE IF a <= 720 THEN SinTable[((720 - a) \div 10) + 1]
        ELSE IF a <= 1080 THEN 0 - SinTable[((a - 720) \div 10) + 1]
        ELSE 0 - SinTable[((1440 - a) \div 10) + 1]

Cos(theta) == Sin(theta + 360)

\* velocity * (trig / TrigScale), rounded to the nearest velocity unit: the
\* value of (velocity * trig + TrigScale/2) \div TrigScale, computed from the
\* quotient and remainder of velocity so that the product stays in 32 bits
Scaled(velocity, trig) ==
    (velocity \div TrigScale) * trig
    + ((velocity % TrigScale) * trig + (TrigScale \div 2)) \div TrigScale

RECURSIVE Newton(_, _)
\* Newton's iteration for the integer square root of n >= 1 from x >= it
Newton(n, x) ==
    LET y == (x + n \div x) \div 2
    IN  IF y >= x THEN x ELSE Newton(n, y)

\* the r with r*r <= n < (r+1)*(r+1), given some x0 >= r
Sqrt(n, x0) == IF n = 0 THEN 0 ELSE Newton(n, x0)

\* round(p, 1) of a position, in tenths of a metre
Round1(p) == (p + (TenthPos \div 2)) \div TenthPos

\* The texts of the graphics objects: a number (in tenths) or a string.
Num(n) == [kind |-> "num", num |-> n, str |-> ""]

Str(s) == [kind |-> "str", num |-> 0, str |-> s]

----------------------------------------------------------------------------
(* ch10_projectile.py: class Projectile *)

\* Projectile.__init__(angle, velocity, height), angle in degree units
Projectile(angle, velocity, height) ==
    LET theta == Radians(angle)
    IN  [xpos |-> 0,
         ypos |-> height,
         xvel |-> Scaled(velocity, Cos(theta)),
         yvel |-> Scaled(velocity, Sin(theta))]

\* The step with simple Euler on y (the old velocity alone moves the shot).
EulerUpdate(p, time) ==
    [xpos |-> p.xpos + time * p.xvel * PosPerVelFrame,
     ypos |-> p.ypos + time * p.yvel * PosPerVelFrame,
     xvel |-> p.xvel,
     yvel |-> p.yvel - GravityStep * time]

\* Projectile.update(time), time in time units
ProjectileUpdate(p, time) ==
    LET yvel1 == p.yvel - GravityStep * time
    IN  [xpos |-> p.xpos + time * p.xvel * PosPerVelFrame,
         ypos |-> p.ypos + (time * (p.yvel + yvel1) * PosPerVelFrame) \div 2,
         xvel |-> p.xvel,
         yvel |-> yvel1]

getX(p) == p.xpos

getY(p) == p.ypos

\* round(Projectile.getVel(), 1), in tenths of a m/s.  getVel is
\* sqrt(xvel^2 + yvel^2); with h = TenthVel/2 the rounded value is the s with
\* ((2s-1)h)^2 <= xvel^2 + yvel^2 < ((2s+1)h)^2.  The sum of squares is
\* h*h*q + r with 0 <= r < h*h, computed from the quotients and remainders by
\* TenthVel so that no intermediate value leaves 32 bits.
RoundedVel(p) ==
    LET a == p.xvel \div TenthVel
        b == p.xvel % TenthVel
        c == p.yvel \div TenthVel
        d == p.yvel % TenthVel
        h == TenthVel \div 2
        q == 4 * (a * a + c * c)
             + (2 * TenthVel * (a * b + c * d) + b * b + d * d) \div (h * h)
        abs(n) == IF n < 0 THEN 0 - n ELSE n
    IN  (Sqrt(q, 2 * (abs(a) + abs(c)) + 4) + 1) \div 2

----------------------------------------------------------------------------
(* main_animation.py: class ShotTracker *)

StatTexts == {"statX", "statXval", "statY", "statYval", "statV", "statVval"}

\* ShotTracker.__init__(win, angle, velocity, height); id tells the objects
\* apart.  drawn holds the graphics objects of the tracker that are on the
\* window; center is the marker's centre, and the six texts are moved by the
\* same deltas as the marker.
ShotTracker(id, angle, velocity, height) ==
    [id       |-> id,
     proj     |-> Projectile(angle, velocity, height),
     center   |-> [x |-> 0, y |-> height],
     drawn    |-> {"marker"} \cup StatTexts,
     statXval |-> Str(""),
     statYval |-> Str(""),
     statVval |-> Str(""),
     age      |-> 0]

\* The condition of ShotTracker.update for keeping the overlay
InBounds(p) == getY(p) >= 0 /\ getX(p) <= WindowX

\* ShotTracker.update with the overlay drawn again when the shot is in bounds.
RedrawingUpdate(t, dt) ==
    LET p  == ProjectileUpdate(t.proj, dt)
        dx == getX(p) - t.center.x
        dy == getY(p) - t.center.y
    IN  [t EXCEPT !.proj = p,
                  !.center = [x |-> t.center.x + dx, y |-> t.center.y + dy],
                  !.statXval = Num(Round1(getX(p))),
                  !.statVval = Num(RoundedVel(p)),
                  !.statYval = IF InBounds(p) THEN Num(Round1(getY(p))) ELSE @,
                  !.drawn = IF InBounds(p) THEN @ \cup StatTexts ELSE @ \ StatTexts,
                  !.age = @ + 1]

\* ShotTracker.update(dt); age counts the updates.
ShotTrackerUpdate(t, dt) ==
    LET p  == ProjectileUpdate(t.proj, dt)
        dx == getX(p) - t.center.x
        dy == getY(p) - t.center.y
    IN  [t EXCEPT !.proj = p,
                  !.center = [x |-> t.center.x + dx, y |-> t.center.y + dy],
                  !.statXval = Num(Round1(getX(p))),
                  !.statVval = Num(RoundedVel(p)),
                  !.statYval = IF InBounds(p) THEN Num(Round1(getY(p))) ELSE @,
                  !.drawn = IF InBounds(p) THEN @ ELSE @ \ StatTexts,
                  !.age = @ + 1]

\* ShotTracker.undraw()
ShotTrackerUndraw(t) == [t EXCEPT !.drawn = @ \ {"marker"}]

----------------------------------------------------------------------------
(* main_animation.py: class Launcher *)

\* Launcher.redraw(): the arrow from (0,0) to (vel cos angle, vel sin angle)
redraw(l) ==
    [l EXCEPT !.arrow = [x |-> Scaled(l.vel, Cos(l.angle)),
                         y |-> Scaled(l.vel, Sin(l.angle))]]

\* Launcher.__init__
Launcher ==
    redraw([angle |-> Radians(InitAngleDeg), vel |-> InitVel,
            arrow |-> [x |-> 0, y |-> 0]])

\* adjAngle that adds the degrees to the radians unconverted.
UnconvertedAdjAngle(l, amt) == redraw([l EXCEPT !.angle = @ + amt])

\* Launcher.adjAngle(amt), amt in degree units
adjAngle(l, amt) == redraw([l EXCEPT !.angle = @ + Radians(amt)])

\* Launcher.adjVel(amt)
adjVel(l, amt) == redraw([l EXCEPT !.vel = @ + amt])

\* Launcher.fire()
fire(l, id) == ShotTracker(id, Degrees(l.angle), l.vel, FireHeight)

----------------------------------------------------------------------------
(* main_animation.py: class ProjectileApp *)

\* updateOne that drops a shot only once it has landed: a shot above ground
\* stays in the collection wherever its x is.
updateOneKeepAloft(acc, shot, dt) ==
    LET s == ShotTrackerUpdate(shot, dt)
    IN  IF getY(s.proj) > 0
        THEN [alive |-> Append(acc.alive, s), x |-> Num(Round1(getX(s.proj))),
              y |-> Num(Round1(getY(s.proj))), v |-> Num(RoundedVel(s.proj)),
              dropped |-> acc.dropped, last |-> <<s>>]
        ELSE [alive |-> acc.alive, x |-> Num(Round1(getX(s.proj))),
              y |-> Num(0), v |-> Num(RoundedVel(s.proj)),
              dropped |-> acc.dropped \cup {ShotTrackerUndraw(s)},
              last |-> <<ShotTrackerUndraw(s)>>]

\* updateOne that undraws a landed shot but leaves it in the collection.
updateOneKeepLanded(acc, shot, dt) ==
    LET s == ShotTrackerUpdate(shot, dt)
    IN  IF getY(s.proj) > 0 /\ getX(s.proj) < WindowX
        THEN [alive |-> Append(acc.alive, s), x |-> Num(Round1(getX(s.proj))),
              y |-> Num(Round1(getY(s.proj))), v |-> Num(RoundedVel(s.proj)),
              dropped |-> acc.dropped, last |-> <<s>>]
        ELSE [alive |-> Append(acc.alive, ShotTrackerUndraw(s)),
              x |-> Num(Round1(getX(s.proj))),
              y |-> Num(0), v |-> Num(RoundedVel(s.proj)),
              dropped |-> acc.dropped, last |-> <<ShotTrackerUndraw(s)>>]

\* updateOne that starts alive afresh when a shot lands, dropping the shots
\* kept before it in the same frame.
updateOneDropOthers(acc, shot, dt) ==
    LET s == ShotTrackerUpdate(shot, dt)
    IN  IF getY(s.proj) > 0 /\ getX(s.proj) < WindowX
        THEN [alive |-> Append(acc.alive, s), x |-> Num(Round1(getX(s.proj))),
              y |-> Num(Round1(getY(s.proj))), v |-> Num(RoundedVel(s.proj)),
              dropped |-> acc.dropped, last |-> <<s>>]
        ELSE [alive |-> <<>>, x |-> Num(Round1(getX(s.proj))),
              y |-> Num(0), v |-> Num(RoundedVel(s.proj)),
              dropped |-> acc.dropped \cup {ShotTrackerUndraw(s)},
              last |-> <<ShotTrackerUndraw(s)>>]

\* The body of the loop of updateShots for one shot.  acc holds alive, the
\* locals x, y, v, and (history) the trackers dropped and the one updated.
updateOne(acc, shot, dt) ==
    LET s == ShotTrackerUpdate(shot, dt)
        x == Num(Round1(getX(s.proj)))
        v == Num(RoundedVel(s.proj))
    IN  IF getY(s.proj) > 0 /\ getX(s.proj) < WindowX
        THEN [alive |-> Append(acc.alive, s), x |-> x,
              y |-> Num(Round1(getY(s.proj))), v |-> v,
              dropped |-> acc.dropped, last |-> <<s>>]
        ELSE IF getY(s.proj) > 0 /\ getX(s.proj) > WindowX
        THEN [alive |-> acc.alive, x |-> Str("N/A (>420)"),
              y |-> Num(0), v |-> Str("N/A"),
              dropped |-> acc.dropped \cup {ShotTrackerUndraw(s)},
              last |-> <<ShotTrackerUndraw(s)>>]
        ELSE [alive |-> acc.alive, x |-> x,
              y |-> Num(0), v |-> v,
              dropped |-> acc.dropped \cup {ShotTrackerUndraw(s)},
              last |-> <<ShotTrackerUndraw(s)>>]

RECURSIVE updateFrom(_, _, _, _)
\* The loop of updateShots from the i-th shot on
updateFrom(acc, ss, i, dt) ==
    IF i > Len(ss) THEN acc
    ELSE updateFrom(updateOne(acc, ss[i], dt), ss, i + 1, dt)

\* ProjectileApp.updateShots(dt) on the collection ss: the new collection
\* (alive) and the returned x, y, v
updateShots(ss, dt) ==
    updateFrom([alive |-> <<>>, x |-> Str(""), y |-> Str(""), v |-> Str(""),
                dropped |-> {}, last |-> <<>>], ss, 1, dt)

\* round(launcher.angle * (180/pi), 1), in tenths of a degree
AngleText(l) == Num((l.angle * 25 + 5) \div 10)

\* round(launcher.vel, 1), in tenths of a m/s
VelText(l) == Num((l.vel + (TenthVel \div 2)) \div TenthVel)

\* The test of run for writing the summary
Landed(r) == r.x # Str("") /\ r.y.num <= 0

\* The key handling of run on the launcher
handleKey(l, key) ==
    IF key = "Up" THEN adjAngle(l, AngleStepDeg)
    ELSE IF key = "Down" THEN adjAngle(l, 0 - AngleStepDeg)
    ELSE IF key = "Right" THEN adjVel(l, VelStep)
    ELSE IF key = "Left" THEN adjVel(l, 0 - VelStep)
    ELSE l

AdjustKeys == {"Up", "Down", "Left", "Right"}

\* One iteration of the loop of ProjectileApp.run with checkKey returning key
\* ("" when no key is pressed): updateShots(1/120), the summary, the key.
RunFrame(key) ==
    /\ running
    /\ key \in AdjustKeys => budget.adjust > 0
    /\ key = "f" => budget.fire > 0
    /\ LET r == updateShots(shots, FrameDt)
       IN  /\ ret' = [x |-> r.x, y |-> r.y, v |-> r.v]
           /\ lastShot' = r.last
           /\ wrote' = Landed(r)
           /\ finPos' = IF Landed(r) THEN r.x ELSE finPos
           /\ finVel' = IF Landed(r) THEN r.v ELSE finVel
           /\ retired' = retired \cup r.dropped
           /\ running' = (key # "q")
           /\ launcher' = IF key = "q" THEN launcher ELSE handleKey(launcher, key)
           /\ initAngle' = IF key \in {"Up", "Down"}
                           THEN AngleText(handleKey(launcher, key)) ELSE initAngle
           /\ initVel' = IF key \in {"Left", "Right"}
                         THEN VelText(handleKey(launcher, key)) ELSE initVel
           /\ shots' = IF key = "f"
                       THEN Append(r.alive, fire(launcher, nFired + 1))
                       ELSE r.alive
    /\ nFired' = IF key = "f" THEN nFired + 1 ELSE nFired
    /\ presses' = IF key \in AdjustKeys
                  THEN [presses EXCEPT ![key] = @ + 1] ELSE presses
    /\ budget' = [adjust |-> IF key \in AdjustKeys
                             THEN budget.adjust - 1 ELSE budget.adjust,
                  fire   |-> IF key = "f"
                             THEN budget.fire - 1 ELSE budget.fire]
    /\ UNCHANGED trkVars

KeyNone == RunFrame("")

KeyUp == RunFrame("Up")

KeyDown == RunFrame("Down")

KeyRight == RunFrame("Right")

KeyLeft == RunFrame("Left")

KeyFire == RunFrame("f")

KeyQuit == RunFrame("q")

----------------------------------------------------------------------------
(* The states the specifications start from *)

NoPresses == [k \in AdjustKeys |-> 0]

\* The launcher after the keys counted in p were handled, in any order
LauncherAfter(p) ==
    redraw([angle |-> Radians(InitAngleDeg + AngleStepDeg * (p["Up"] - p["Down"])),
            vel   |-> InitVel + VelStep * (p["Right"] - p["Left"]),
            arrow |-> [x |-> 0, y |-> 0]])

\* ProjectileApp.__init__ and the head of run, then the keys counted in p,
\* handled in frames without a shot; b is the budget of keys left
AppAfter(p, b) ==
    /\ launcher = LauncherAfter(p)
    /\ shots = <<>>
    /\ finPos = Str("")
    /\ finVel = Str("")
    /\ initAngle = IF p["Up"] + p["Down"] = 0
                   THEN Num(InitAngleDeg * 5) ELSE AngleText(LauncherAfter(p))
    /\ initVel = IF p["Left"] + p["Right"] = 0
                 THEN Num(InitVel \div TenthVel) ELSE VelText(LauncherAfter(p))
    /\ running = TRUE
    /\ ret = [x |-> Str(""), y |-> Str(""), v |-> Str("")]
    /\ lastShot = <<>>
    /\ wrote = FALSE
    /\ retired = {}
    /\ presses = p
    /\ nFired = 0
    /\ budget = b

NoTracker ==
    /\ trk = ShotTracker(0, 0, 0, 0)
    /\ trk0 = trk.proj
    /\ dtIn = 1
    /\ steps = 0
    /\ everOut = FALSE

----------------------------------------------------------------------------
(* Spec: the program from its construction *)

MaxAdjust == 2
MaxFires == 1

Init ==
    /\ launcher = Launcher
    /\ AppAfter(NoPresses, [adjust |-> MaxAdjust, fire |-> MaxFires])
    /\ NoTracker

Next ==
    \/ KeyNone
    \/ KeyUp
    \/ KeyDown
    \/ KeyRight
    \/ KeyLeft
    \/ KeyFire
    \/ KeyQuit

Spec == Init /\ [][Next]_vars

----------------------------------------------------------------------------
(* SpecShots: the program after keys that aim for a short flight, so that  *)
(* several shots and every order of their landings fit the search.         *)
(*   SlowAim  12 times Down, 39 times Left: 15 degrees, 1 m/s, a flight of *)
(*            7 frames                                                     *)

ShotsAdjust == 2
ShotsFires == 2

SlowAim == [NoPresses EXCEPT !["Down"] = 12, !["Left"] = 39]

InitShots ==
    /\ AppAfter(SlowAim, [adjust |-> ShotsAdjust, fire |-> ShotsFires])
    /\ NoTracker

SpecShots == InitShots /\ [][Next]_vars

----------------------------------------------------------------------------
(* SpecFast: the program after keys that aim out of the window.            *)
(*   FastAim  17 times Down, 1960 times Right: 2.5 degrees, 2000 m/s; the  *)
(*            shot passes x = 420 in its 26th frame, 18 m above ground     *)

FastAdjust == 1
FastFires == 1

FastAim == [NoPresses EXCEPT !["Down"] = 17, !["Right"] = 1960]

InitFast ==
    /\ AppAfter(FastAim, [adjust |-> FastAdjust, fire |-> FastFires])
    /\ NoTracker

SpecFast == InitFast /\ [][Next]_vars

----------------------------------------------------------------------------
(* SpecLong: the program after keys that aim at the edges of the window,   *)
(* one shot each, no further aiming.                                       *)
(*   BeyondAim  10 Down, 40 Right: 20 degrees, 80 m/s; lands in frame 671  *)
(*              at x = 420.36, having been at x < 420 the frame before     *)
(*   GroundAim  6 Down, 9 Right: 30 degrees, 49 m/s; y is 0 in frame 600   *)
(*   EdgeAim    6 Up, 60 Right: 60 degrees, 100 m/s; x is 420 in frame     *)
(*              1008, 381 m above ground                                   *)

LongFires == 1

BeyondAim == [NoPresses EXCEPT !["Down"] = 10, !["Right"] = 40]

GroundAim == [NoPresses EXCEPT !["Down"] = 6, !["Right"] = 9]

EdgeAim == [NoPresses EXCEPT !["Up"] = 6, !["Right"] = 60]

InitLong ==
    /\ \E p \in {BeyondAim, GroundAim, EdgeAim} :
          AppAfter(p, [adjust |-> 0, fire |-> LongFires])
    /\ NoTracker

NextLong ==
    \/ KeyNone
    \/ KeyFire
    \/ KeyQuit

SpecLong == InitLong /\ [][NextLong]_vars

----------------------------------------------------------------------------
(* SpecTracker: one ShotTracker, constructed with any of a set of angles,  *)
(* velocities and heights, and updated with one dt.                        *)

MaxDt == 3
MaxSteps == 8

TrackerAngles == {0, 90, 180, 270}

TrackerVels == {0, 5 * VelUnit, 20 * VelUnit}

TrackerHeights == {0 - PosUnit, 0, PosUnit \div 100}

NoApp == AppAfter(NoPresses, [adjust |-> 0, fire |-> 0])

InitTracker ==
    /\ NoApp
    /\ \E a \in TrackerAngles, v \in TrackerVels, h \in TrackerHeights :
          trk = ShotTracker(0, a, v, h)
    /\ trk0 = trk.proj
    /\ dtIn \in 1..MaxDt
    /\ steps = 0
    /\ everOut = FALSE

\* trk.update(dtIn)
TrackerStep ==
    /\ steps < MaxSteps
    /\ trk' = ShotTrackerUpdate(trk, dtIn)
    /\ steps' = steps + 1
    /\ everOut' = (everOut \/ ~InBounds(trk'.proj))
    /\ UNCHANGED <<dtIn, trk0>>
    /\ UNCHANGED appVars

SpecTracker == InitTracker /\ [][TrackerStep]_vars

----------------------------------------------------------------------------
(* Claims *)

Active == {shots[i] : i \in 1..Len(shots)}

\* The tracker has been through an update of updateShots
Updated(t) == t.age > 0

Aloft(t) == getY(t.proj) > 0

Beyond(t) == getX(t.proj) > WindowX

\* The six overlay texts of the tracker are all on the window
OverlayShown(t) == StatTexts \subseteq t.drawn

OverlayHidden(t) == StatTexts \cap t.drawn = {}

\* C1 as stated: updateShots drops a shot exactly when its y after the
\* frame's update is <= 0; a shot still above ground stays in the collection,
\* also when its x has exceeded 420.
C1_DroppedExactlyWhenLanded ==
    /\ \A t \in retired : ~Aloft(t)
    /\ \A t \in Active : Updated(t) => Aloft(t)

\* C1 as amended: updateShots drops a shot, and undraws its marker, exactly
\* when after the frame's update it is not both above ground and short of
\* x = 420; the shots it keeps have y > 0 and x < 420 and their marker drawn.
C1_DroppedExactlyWhenNotInFlight ==
    /\ \A t \in retired :
          /\ ~(getY(t.proj) > 0 /\ getX(t.proj) < WindowX)
          /\ "marker" \notin t.drawn
    /\ \A t \in Active :
          Updated(t) => /\ getY(t.proj) > 0 /\ getX(t.proj) < WindowX
                        /\ "marker" \in t.drawn

\* A shot was dropped, marker undrawn, above ground and beyond x = 420.
C1_Witness ==
    \E t \in retired : Aloft(t) /\ Beyond(t) /\ "marker" \notin t.drawn

\* C2 as stated: a shot dropped by updateShots has all its visuals undrawn,
\* the marker and the six overlay texts, wherever it was dropped.
C2_RetiredFullyUndrawn == \A t \in retired : t.drawn = {}

\* C3 as stated: when the summary is written for a shot it shows the
\* sentinels if the shot's x is beyond 420 and the rounded distance and speed
\* otherwise, so it never shows a distance greater than 420.
C3_SentinelIffBeyond ==
    wrote =>
        LET t == lastShot[1]
        IN  /\ IF Beyond(t)
               THEN finPos = Str("N/A (>420)") /\ finVel = Str("N/A")
               ELSE /\ finPos = Num(Round1(getX(t.proj)))
                    /\ finVel = Num(RoundedVel(t.proj))
            /\ finPos.kind = "num" => finPos.num <= Round1(WindowX)

\* C4 as stated: whenever a frame writes the summary, the values are those of
\* the shot fired most recently before the frame's key.
C4_SummaryOfLastFired == [][wrote' => lastShot'[1].id = nFired]_vars

\* C5 as stated: a frame writes the summary only when the shot whose values
\* updateShots returned has landed (its y is <= 0).
C5_WrittenOnlyWhenLanded == wrote => ~Aloft(lastShot[1])

\* C6: a shot whose y is <= 0 after an update is not in the collection at the
\* end of that frame, and no shot dropped on landing is in the collection
\* again, whatever is fired later.
C6_MonotonicRetirement ==
    /\ \A t \in Active : Updated(t) => Aloft(t)
    /\ \A t \in retired : ~Aloft(t) => \A u \in Active : u.id # t.id

\* A shot landed and was dropped, and a shot fired after that is in flight.
C6_Witness ==
    \E t \in retired : ~Aloft(t) /\ \E u \in Active : Updated(u) /\ u.id > t.id

\* C7: after n updates with dt (T = n * dt) the projectile is on the closed
\* form: x = vx0 T, y = height + vy0 T - 4.9 T^2, xvel = vx0, yvel = vy0 - 9.8 T.
C7_ClosedForm ==
    LET T == steps * dtIn
    IN  /\ trk.proj.xpos = trk0.xpos + PosPerVelFrame * trk0.xvel * T
        /\ trk.proj.ypos = trk0.ypos + PosPerVelFrame * trk0.yvel * T
                            - (GravityStep * PosPerVelFrame * T * T) \div 2
        /\ trk.proj.xvel = trk0.xvel
        /\ trk.proj.yvel = trk0.yvel - GravityStep * T

\* Several updates with a dt above one frame of a shot that started off the
\* ground, moving both ways.
C7_Witness ==
    /\ steps >= 3
    /\ dtIn > 1
    /\ trk0.xvel # 0
    /\ trk0.yvel # 0
    /\ trk0.ypos # 0

\* C8 as stated: after every update the overlay texts are visible if and only
\* if the shot is in bounds (y >= 0 and x <= 420).
C8_OverlayIffInBounds ==
    steps > 0 =>
        (OverlayShown(trk) <=> (getY(trk.proj) >= 0 /\ getX(trk.proj) <= WindowX))

\* C8 as amended: after every update the overlay texts are hidden when the
\* shot is out of bounds, and they are visible if and only if the shot was in
\* bounds after every update so far: once hidden they stay hidden.
C8_OverlayIffNeverOut ==
    steps > 0 =>
        /\ OverlayShown(trk) <=> ~everOut
        /\ OverlayHidden(trk) <=> everOut
        /\ ~(getY(trk.proj) >= 0 /\ getX(trk.proj) <= WindowX) => OverlayHidden(trk)

\* A shot that was below ground after an update and is in bounds again.
C8_Witness ==
    /\ steps > 0
    /\ everOut
    /\ getY(trk.proj) >= 0 /\ getX(trk.proj) <= WindowX
    /\ OverlayHidden(trk)

\* C9: the angle is 45 degrees plus 2.5 degrees for every Up less every Down,
\* the speed 40 plus 1 for every Right less every Left, with no clamp; f, q
\* and frames without a key change neither.
C9_AimAdditive ==
    /\ launcher.angle =
          Radians(InitAngleDeg + AngleStepDeg * (presses["Up"] - presses["Down"]))
    /\ launcher.vel = InitVel + VelStep * (presses["Right"] - presses["Left"])

\* The speed went below zero, and a shot was fired and the loop left since.
C9_Witness ==
    /\ launcher.vel < 0
    /\ nFired > 0
    /\ ~running

\* C10: in every frame each shot of the collection becomes what update makes
\* of it alone; it stays exactly when it is itself above ground and short of
\* x = 420; the shots that stay keep their order, and the only other member
\* is the tracker the frame's f key appended.  No key changes a shot.
C10_Isolation ==
    [][LET upd == [i \in 1..Len(shots) |-> ShotTrackerUpdate(shots[i], FrameDt)]
           keep(t) == getY(t.proj) > 0 /\ getX(t.proj) < WindowX
           kept == SelectSeq(upd, keep)
       IN  /\ Len(shots') \in {Len(kept), Len(kept) + 1}
           /\ SubSeq(shots', 1, Len(kept)) = kept
           /\ Len(shots') = Len(kept) + 1 =>
                 /\ nFired' = nFired + 1
                 /\ shots'[Len(shots')] = fire(launcher, nFired')]_vars

\* An earlier shot is still in flight after a later one, fired with another
\* aim, was dropped.
C10_Witness ==
    \E t \in retired : \E u \in Active :
        /\ u.id < t.id
        /\ Updated(u)
        /\ u.proj.xvel # t.proj.xvel

====
